---- MODULE Spec2Model ----
(***************************************************************************)
(* Model of klipper_analyzer.py: the firmware image analysis engine        *)
(* (vector table validation, dictionary location, link base resolution,    *)
(* crystal derivation, offset classification) and the per-file loop of     *)
(* main() that drives it.                                                   *)
(*                                                                         *)
(* A buffer is a sequence of bytes (0..255); Python's 0-based offset k is  *)
(* the element k+1.  Python's None is the record None, a present value x   *)
(* is Some(x).  A call that can raise returns Ret(v) or Raise.             *)
(*                                                                         *)
(* Modelled input set (TLC integers are 32-bit signed):                    *)
(*   - every 32-bit word the program reads has its top byte below 0x80;    *)
(*   - deflate data uses stored blocks (BTYPE 00) only;                    *)
(*   - JSON texts have no exponents, no \u escapes, no NaN/Infinity, and   *)
(*     numbers of at most nine digits.                                     *)
(***************************************************************************)
EXTENDS Integers, Sequences, FiniteSets, TLC

None == [some |-> FALSE]
Some(x) == [some |-> TRUE, v |-> x]

Raise == [raises |-> TRUE, v |-> None]
Ret(x) == [raises |-> FALSE, v |-> x]

\* ---------------------------------------------------------------- constants

FLASH_BASE == 134217728                      \* 0x08000000

KNOWN_OFFSETS ==
  << <<0,      0, "No bootloader (direct flash)">>,
     <<4096,   4, "Minimal / custom 4 KiB bootloader">>,
     <<8192,   8, "HID / stm32duino bootloader">>,
     <<12288, 12, "Creality K1 / K1 SE / K1 Max (GD32F303)">>,
     <<20480, 20, "DFU 20 KiB (uncommon)">>,
     <<28672, 28, "Creality/Klipper custom 28 KiB bootloader">>,
     <<32768, 32, "DFU 32 KiB standard">> >>

CRYSTAL_MAP ==
  (72000000  :> <<"8 MHz", "8 MHz x PLLx9 = 72 MHz - standard STM32F103/GD32F303">>) @@
  (64000000  :> <<"8 MHz", "8 MHz x PLLx8 = 64 MHz">>) @@
  (48000000  :> <<"8 MHz", "8 MHz x PLLx6 = 48 MHz">>) @@
  (24000000  :> <<"8 MHz", "8 MHz x PLLx3 = 24 MHz">>) @@
  (120000000 :> <<"8 MHz", "8 MHz x PLLx15 = 120 MHz - GD32F303 high-speed mode">>) @@
  (180000000 :> <<"12 MHz", "12 MHz x PLLx15 - likely STM32F4xx">>) @@
  (168000000 :> <<"8/12 MHz", "STM32F4 - check PCB crystal">>)

KNOWN_BL_OFFSETS == <<0, 4096, 8192, 12288, 20480, 28672, 32768>>

\* ------------------------------------------------------------ byte helpers

\* data[k:] for a 0-based offset k
From(data, k) == SubSeq(data, k + 1, Len(data))

\* struct.unpack_from('<I', data, offset)[0]; raises when fewer than four
\* bytes are available at offset
u32le(data, offset) ==
  IF offset + 4 > Len(data) THEN Raise
  ELSE Ret(data[offset + 1] + 256 * data[offset + 2]
           + 65536 * data[offset + 3] + 16777216 * data[offset + 4])

\* struct.pack('<I', n)
pack_u32le(n) ==
  << n % 256, (n \div 256) % 256, (n \div 65536) % 256, (n \div 16777216) % 256 >>

\* data.count(needle) > 0 for a four-byte needle
Occurs(data, needle) ==
  \E k \in 1..(Len(data) - 3) :
     /\ data[k] = needle[1]
     /\ data[k + 1] = needle[2]
     /\ data[k + 2] = needle[3]
     /\ data[k + 3] = needle[4]

\* ------------------------------------------------------------ vector table

\* analyze_vector_table(data): the record at file offset 0; raises on a
\* buffer shorter than 8 bytes (no length check precedes the two reads)
analyze_vector_table(data) ==
  IF u32le(data, 0).raises \/ u32le(data, 4).raises THEN Raise
  ELSE LET msp   == u32le(data, 0).v
           reset == u32le(data, 4).v
           thumb == reset % 2
           addr  == reset - (reset % 2)
       IN Ret([msp |-> msp, reset |-> reset, thumb |-> thumb,
               reset_addr |-> addr,
               msp_ok   |-> (536870912 <= msp /\ msp <= 537001984),
               flash_ok |-> (FLASH_BASE <= addr /\ addr < FLASH_BASE + 524288)])

\* fault variant of is_valid_vt: the upper end of the stack range excluded
is_valid_vt_open_range(data, offset) ==
  IF offset + 8 > Len(data) THEN FALSE
  ELSE LET msp   == u32le(data, offset).v
           reset == u32le(data, offset + 4).v
           msp_ok   == 536870912 <= msp /\ msp < 537001984
           flash_ok == /\ FLASH_BASE <= reset - (reset % 2)
                       /\ reset - (reset % 2) < FLASH_BASE + 524288
       IN msp_ok /\ flash_ok /\ (reset % 2 = 1)

\* is_valid_vt(data, offset), as its truth value
is_valid_vt(data, offset) ==
  IF offset + 8 > Len(data) THEN FALSE
  ELSE LET msp   == u32le(data, offset).v
           reset == u32le(data, offset + 4).v
           msp_ok   == 536870912 <= msp /\ msp <= 537001984
           flash_ok == /\ FLASH_BASE <= reset - (reset % 2)
                       /\ reset - (reset % 2) < FLASH_BASE + 524288
       IN msp_ok /\ flash_ok /\ (reset % 2 = 1)

\* ---------------------------------------------------------- link base

\* fault variant of vt_file_offset_of: the last matching alternate kept
vt_file_offset_of_last(data) ==
  IF is_valid_vt(data, 0) THEN 0
  ELSE LET hits == { j \in 2..Len(KNOWN_BL_OFFSETS) :
                        is_valid_vt(data, KNOWN_BL_OFFSETS[j]) }
       IN IF hits = {} THEN 0
          ELSE KNOWN_BL_OFFSETS[CHOOSE j \in hits : \A m \in hits : j >= m]

\* Step 1 of find_link_base: where the vector table lives in the file
vt_file_offset_of(data) ==
  IF is_valid_vt(data, 0) THEN 0
  ELSE LET hits == { j \in 2..Len(KNOWN_BL_OFFSETS) :
                        is_valid_vt(data, KNOWN_BL_OFFSETS[j]) }
       IN IF hits = {} THEN 0
          ELSE KNOWN_BL_OFFSETS[CHOOSE j \in hits : \A m \in hits : j <= m]

\* fault variant of needle_of: the vector-table file offset not subtracted
needle_of_unshifted(j, dict_file_offset, vt_file_offset) ==
  pack_u32le(FLASH_BASE + KNOWN_BL_OFFSETS[j] + dict_file_offset)

\* the needle of candidate j: struct.pack('<I', link_base + dict_file_offset - vt_file_offset)
needle_of(j, dict_file_offset, vt_file_offset) ==
  pack_u32le(FLASH_BASE + KNOWN_BL_OFFSETS[j] + dict_file_offset - vt_file_offset)

\* fault variant of find_link_base: the reset-vector fallback tried before
\* the vector-table-position fallback
find_link_base_reset_first(data, dict_file_offset) ==
  LET vt_file_offset == vt_file_offset_of(data)
      matches == IF dict_file_offset.some
                 THEN { j \in 1..Len(KNOWN_BL_OFFSETS) :
                          Occurs(data, needle_of(j, dict_file_offset.v, vt_file_offset)) }
                 ELSE {}
  IN IF matches # {}
     THEN Ret(FLASH_BASE
              + KNOWN_BL_OFFSETS[CHOOSE j \in matches : \A m \in matches : j <= m])
     ELSE IF ~u32le(data, 4).raises
     THEN LET reset == u32le(data, 4).v - (u32le(data, 4).v % 2)
          IN Ret(reset - (reset % 4096))
     ELSE IF vt_file_offset > 0
     THEN Ret(FLASH_BASE + vt_file_offset)
     ELSE Raise

\* find_link_base(data, dict_file_offset); dict_file_offset is None or Some(D)
find_link_base(data, dict_file_offset) ==
  LET vt_file_offset == vt_file_offset_of(data)
      matches == IF dict_file_offset.some
                 THEN { j \in 1..Len(KNOWN_BL_OFFSETS) :
                          Occurs(data, needle_of(j, dict_file_offset.v, vt_file_offset)) }
                 ELSE {}
  IN IF matches # {}
     THEN Ret(FLASH_BASE
              + KNOWN_BL_OFFSETS[CHOOSE j \in matches : \A m \in matches : j <= m])
     ELSE IF vt_file_offset > 0
     THEN Ret(FLASH_BASE + vt_file_offset)
     ELSE IF u32le(data, 4).raises THEN Raise
     ELSE LET reset == u32le(data, 4).v - (u32le(data, 4).v % 2)
          IN Ret(reset - (reset % 4096))

\* ------------------------------------------------- classification lookups

\* fault variant of offset_label: the size of an unlisted offset in units of 1000
offset_label_decimal(bl_offset) ==
  LET hits == { j \in 1..Len(KNOWN_OFFSETS) : KNOWN_OFFSETS[j][1] = bl_offset }
  IN IF hits # {}
     THEN LET j == CHOOSE j \in hits : \A m \in hits : j <= m
          IN << KNOWN_OFFSETS[j][2], KNOWN_OFFSETS[j][3] >>
     ELSE << bl_offset \div 1000, "Non-standard offset" >>

\* offset_label(bl_offset) -> <<kib, label>>
offset_label(bl_offset) ==
  LET hits == { j \in 1..Len(KNOWN_OFFSETS) : KNOWN_OFFSETS[j][1] = bl_offset }
  IN IF hits # {}
     THEN LET j == CHOOSE j \in hits : \A m \in hits : j <= m
          IN << KNOWN_OFFSETS[j][2], KNOWN_OFFSETS[j][3] >>
     ELSE << bl_offset \div 1024, "Non-standard offset" >>

\* ------------------------------------------------------------------- zlib

RECURSIVE ByteSum(_, _, _)
\* out[a] + ... + out[b], by halving the range
ByteSum(out, a, b) ==
  IF a > b THEN 0
  ELSE IF a = b THEN out[a]
  ELSE LET m == (a + b) \div 2
       IN ByteSum(out, a, m) + ByteSum(out, m + 1, b)

RECURSIVE WeightedSum(_, _, _, _)
\* (k - a + 1) * out[a] + ... + (k - b + 1) * out[b], by halving the range
WeightedSum(out, a, b, k) ==
  IF a > b THEN 0
  ELSE IF a = b THEN (k - a + 1) * out[a]
  ELSE LET m == (a + b) \div 2
       IN WeightedSum(out, a, m, k) + WeightedSum(out, m + 1, b, k)

\* the low half of Adler-32 over the first k bytes: 1 plus their sum
AdlerA(out, k) == (1 + ByteSum(out, 1, k)) % 65521

\* the high half of Adler-32 over the first k bytes: the sum of the low
\* halves over the first 1, 2, ..., k bytes
AdlerB(out, k) == (k + WeightedSum(out, 1, k, k)) % 65521

\* the four trailer bytes of a zlib stream, big-endian Adler-32 of out
AdlerBytes(out) ==
  LET a == AdlerA(out, Len(out))
      b == AdlerB(out, Len(out))
  IN << b \div 256, b % 256, a \div 256, a % 256 >>

InflateError == [ok |-> FALSE, out |-> << >>]

RECURSIVE InflateBlocks(_, _, _)
\* inflate the deflate blocks of z starting at element p, out being the
\* output so far.  Running out of input is not an error: decompressobj
\* returns what has been produced.
InflateBlocks(z, p, out) ==
  IF p > Len(z) THEN [ok |-> TRUE, out |-> out]
  ELSE LET bfinal == z[p] % 2
           btype  == (z[p] \div 2) % 4
       IN IF btype = 3 THEN InflateError                \* invalid block type
          ELSE IF btype # 0 THEN InflateError           \* outside the modelled input set
          ELSE IF p + 4 > Len(z) THEN [ok |-> TRUE, out |-> out]
          ELSE LET len   == z[p + 1] + 256 * z[p + 2]
                   nlen  == z[p + 3] + 256 * z[p + 4]
                   avail == Len(z) - (p + 4)
                   take  == IF len <= avail THEN len ELSE avail
                   out2  == out \o SubSeq(z, p + 5, p + 4 + take)
                   q     == p + 5 + len
               IN IF len + nlen # 65535 THEN InflateError   \* invalid stored block lengths
                  ELSE IF take < len THEN [ok |-> TRUE, out |-> out2]
                  ELSE IF bfinal = 0 THEN InflateBlocks(z, q, out2)
                  ELSE IF q + 3 > Len(z) THEN [ok |-> TRUE, out |-> out2]
                  ELSE IF SubSeq(z, q, q + 3) = AdlerBytes(out2)
                       THEN [ok |-> TRUE, out |-> out2]
                       ELSE InflateError                    \* incorrect data check

\* zlib.decompressobj().decompress(z): [ok, out]; not ok when zlib.error is raised
Inflate(z) ==
  IF Len(z) < 2 THEN [ok |-> TRUE, out |-> << >>]
  ELSE IF (z[1] * 256 + z[2]) % 31 # 0 THEN InflateError    \* incorrect header check
  ELSE IF z[1] % 16 # 8 THEN InflateError                   \* unknown compression method
  ELSE IF z[1] \div 16 > 7 THEN InflateError                \* invalid window size
  ELSE IF (z[2] \div 32) % 2 = 1 THEN InflateError          \* preset dictionary needed
  ELSE InflateBlocks(z, 3, << >>)

\* ------------------------------------------------------------------ UTF-8

IsCont(b, i) == i <= Len(b) /\ 128 <= b[i] /\ b[i] <= 191

\* the length of the sequence a lead byte c announces (0: not a lead byte)
Utf8Len(c) ==
  IF 194 <= c /\ c <= 223 THEN 2
  ELSE IF 224 <= c /\ c <= 239 THEN 3
  ELSE IF 240 <= c /\ c <= 244 THEN 4
  ELSE 0

\* element i is a lead byte followed by the continuation bytes it needs
Utf8Lead(b, i) ==
  LET c == b[i]
  IN /\ Utf8Len(c) >= 2
     /\ \A d \in 1..(Utf8Len(c) - 1) : IsCont(b, i + d)
     /\ (c = 224 => b[i + 1] >= 160)
     /\ (c = 237 => b[i + 1] <= 159)
     /\ (c = 240 => b[i + 1] >= 144)
     /\ (c = 244 => b[i + 1] <= 143)

\* bytes.decode('utf-8') succeeds on b from element i on: every byte is
\* ASCII, a well-formed lead byte, or a continuation byte of one
Utf8Ok(b, i) ==
  \A n \in i..Len(b) :
     \/ b[n] < 128
     \/ Utf8Lead(b, n)
     \/ /\ IsCont(b, n)
        /\ \E d \in 1..3 : n - d >= i /\ Utf8Lead(b, n - d) /\ Utf8Len(b[n - d]) > d

\* ------------------------------------------------------------------- JSON
\* A text is kept as its UTF-8 bytes.  Values: Python None is JNull.

JNull == [t |-> "null"]
JBool(b) == [t |-> "bool", b |-> b]
JInt(n) == [t |-> "int", n |-> n]
JFloat(neg, ip, fd) == [t |-> "float", neg |-> neg, ip |-> ip, fd |-> fd]
JStr(s) == [t |-> "str", s |-> s]
JArr(a) == [t |-> "arr", a |-> a]
JObj(m) == [t |-> "obj", m |-> m]

PFail == [ok |-> FALSE, v |-> JNull, n |-> 0]
POk(v, n) == [ok |-> TRUE, v |-> v, n |-> n]

IsDigit(t, i) == i <= Len(t) /\ 48 <= t[i] /\ t[i] <= 57
At(t, i, c) == i <= Len(t) /\ t[i] = c

\* str.strip() whitespace (ASCII)
StripSet == {9, 10, 11, 12, 13, 28, 29, 30, 31, 32}

RECURSIVE LStrip(_)
LStrip(t) == IF Len(t) > 0 /\ t[1] \in StripSet THEN LStrip(Tail(t)) ELSE t

RECURSIVE RStrip(_)
RStrip(t) == IF Len(t) > 0 /\ t[Len(t)] \in StripSet
             THEN RStrip(SubSeq(t, 1, Len(t) - 1)) ELSE t

Strip(t) == RStrip(LStrip(t))

RECURSIVE SkipWs(_, _)
\* json whitespace: space, tab, newline, carriage return
SkipWs(t, i) == IF i <= Len(t) /\ t[i] \in {32, 9, 10, 13} THEN SkipWs(t, i + 1) ELSE i

RECURSIVE DigitsEnd(_, _)
DigitsEnd(t, i) == IF IsDigit(t, i) THEN DigitsEnd(t, i + 1) ELSE i

RECURSIVE DigitsVal(_, _, _)
\* the decimal value of t[a..b]
DigitsVal(t, a, b) == IF b < a THEN 0 ELSE 10 * DigitsVal(t, a, b - 1) + (t[b] - 48)

Unescape(c) ==
  IF c \in {34, 92, 47} THEN c
  ELSE IF c = 98 THEN 8 ELSE IF c = 102 THEN 12 ELSE IF c = 110 THEN 10
  ELSE IF c = 114 THEN 13 ELSE IF c = 116 THEN 9 ELSE 0 - 1

RECURSIVE ScanStr(_, _, _)
\* the rest of a string whose opening quote precedes element j
ScanStr(t, j, acc) ==
  IF j > Len(t) THEN PFail
  ELSE IF t[j] = 34 THEN POk(acc, j + 1)
  ELSE IF t[j] = 92
       THEN IF j + 1 > Len(t) \/ Unescape(t[j + 1]) < 0 THEN PFail
            ELSE ScanStr(t, j + 2, Append(acc, Unescape(t[j + 1])))
  ELSE IF t[j] < 32 THEN PFail
  ELSE ScanStr(t, j + 1, Append(acc, t[j]))

\* a number starting at element i (a '-' or a digit)
ParseNumber(t, i) ==
  LET neg == At(t, i, 45)
      s   == IF neg THEN i + 1 ELSE i
      e   == IF At(t, s, 48) THEN s + 1 ELSE DigitsEnd(t, s)
      ip  == DigitsVal(t, s, e - 1)
      f   == DigitsEnd(t, e + 1)
  IN IF ~IsDigit(t, s) THEN PFail
     ELSE IF At(t, e, 46) /\ IsDigit(t, e + 1)
          THEN POk(JFloat(neg, ip, SubSeq(t, e + 1, f - 1)), f)
          ELSE POk(JInt(IF neg THEN 0 - ip ELSE ip), e)

RECURSIVE ParseValue(_, _)
RECURSIVE ArrElems(_, _, _)
RECURSIVE ObjMembers(_, _, _)

ArrElems(t, j, acc) ==
  LET v == ParseValue(t, j)
      k == SkipWs(t, v.n)
  IN IF ~v.ok THEN PFail
     ELSE IF At(t, k, 44) THEN ArrElems(t, SkipWs(t, k + 1), Append(acc, v.v))
     ELSE IF At(t, k, 93) THEN POk(JArr(Append(acc, v.v)), k + 1)
     ELSE PFail

ObjMembers(t, j, m) ==
  IF ~At(t, j, 34) THEN PFail
  ELSE LET key == ScanStr(t, j + 1, << >>)
           k   == SkipWs(t, key.n)
           v   == ParseValue(t, SkipWs(t, k + 1))
           q   == SkipWs(t, v.n)
           m2  == (key.v :> v.v) @@ m
       IN IF ~key.ok \/ ~At(t, k, 58) THEN PFail
          ELSE IF ~v.ok THEN PFail
          ELSE IF At(t, q, 44) THEN ObjMembers(t, SkipWs(t, q + 1), m2)
          ELSE IF At(t, q, 125) THEN POk(JObj(m2), q + 1)
          ELSE PFail

ParseValue(t, i) ==
  IF i > Len(t) THEN PFail
  ELSE IF t[i] = 123
       THEN LET j == SkipWs(t, i + 1)
            IN IF At(t, j, 125) THEN POk(JObj(<< >>), j + 1)
               ELSE ObjMembers(t, j, << >>)
  ELSE IF t[i] = 91
       THEN LET j == SkipWs(t, i + 1)
            IN IF At(t, j, 93) THEN POk(JArr(<< >>), j + 1)
               ELSE ArrElems(t, j, << >>)
  ELSE IF t[i] = 34
       THEN LET s == ScanStr(t, i + 1, << >>)
            IN IF s.ok THEN POk(JStr(s.v), s.n) ELSE PFail
  ELSE IF t[i] = 45 \/ IsDigit(t, i) THEN ParseNumber(t, i)
  ELSE IF i + 3 <= Len(t) /\ SubSeq(t, i, i + 3) = <<110, 117, 108, 108>>
       THEN POk(JNull, i + 4)
  ELSE IF i + 3 <= Len(t) /\ SubSeq(t, i, i + 3) = <<116, 114, 117, 101>>
       THEN POk(JBool(TRUE), i + 4)
  ELSE IF i + 4 <= Len(t) /\ SubSeq(t, i, i + 4) = <<102, 97, 108, 115, 101>>
       THEN POk(JBool(FALSE), i + 5)
  ELSE PFail

\* json.loads(t): Ret(value), or Raise on JSONDecodeError
json_loads(t) ==
  LET v == ParseValue(t, SkipWs(t, 1))
  IN IF v.ok /\ SkipWs(t, v.n) = Len(t) + 1 THEN Ret(v.v) ELSE Raise

\* ------------------------------------------------------- Python built-ins

\* bool(v)
truthy(v) ==
  IF v.t = "null" THEN FALSE
  ELSE IF v.t = "bool" THEN v.b
  ELSE IF v.t = "int" THEN v.n # 0
  ELSE IF v.t = "float" THEN v.ip # 0 \/ (\E k \in 1..Len(v.fd) : v.fd[k] # 48)
  ELSE IF v.t = "str" THEN Len(v.s) > 0
  ELSE IF v.t = "arr" THEN Len(v.a) > 0
  ELSE DOMAIN v.m # {}

\* int(v): Ret(n), or Raise (ValueError for a non-numeric string, TypeError
\* for a list, a dict or None); a float is truncated towards zero
py_int(v) ==
  IF v.t = "int" THEN Ret(v.n)
  ELSE IF v.t = "bool" THEN Ret(IF v.b THEN 1 ELSE 0)
  ELSE IF v.t = "float" THEN Ret(IF v.neg THEN 0 - v.ip ELSE v.ip)
  ELSE IF v.t = "str"
       THEN LET s   == Strip(v.s)
                sg  == At(s, 1, 45) \/ At(s, 1, 43)
                a   == IF sg THEN 2 ELSE 1
                val == DigitsVal(s, a, Len(s))
            IN IF a <= Len(s) /\ DigitsEnd(s, a) = Len(s) + 1
               THEN Ret(IF At(s, 1, 45) THEN 0 - val ELSE val)
               ELSE Raise
  ELSE Raise

\* ----------------------------------------------------- dictionary locator

K_config      == <<99, 111, 110, 102, 105, 103>>                     \* "config"
K_MCU         == <<77, 67, 85>>                                      \* "MCU"
K_CLOCK_FREQ  == <<67, 76, 79, 67, 75, 95, 70, 82, 69, 81>>      \* "CLOCK_FREQ"
K_SERIAL_BAUD == <<83, 69, 82, 73, 65, 76, 95, 66, 65, 85, 68>>  \* "SERIAL_BAUD"

MarkerKeys == << K_MCU, K_CLOCK_FREQ, K_SERIAL_BAUD >>

\* dict.get(key, default) on a parsed object
dict_get(obj, key, default) == IF key \in DOMAIN obj.m THEN obj.m[key] ELSE default

\* needle in haystack, for two strings
IsSubstring(needle, hay) ==
  \E k \in 0..(Len(hay) - Len(needle)) : SubSeq(hay, k + 1, k + Len(needle)) = needle

\* k in cfg: Ret(truth), or Raise (TypeError) when cfg is not a container
py_in(k, cfg) ==
  IF cfg.t = "obj" THEN Ret(k \in DOMAIN cfg.m)
  ELSE IF cfg.t = "arr"
       THEN Ret(\E n \in 1..Len(cfg.a) : cfg.a[n].t = "str" /\ cfg.a[n].s = k)
  ELSE IF cfg.t = "str" THEN Ret(IsSubstring(k, cfg.s))
  ELSE Raise

\* the marker-key test: cfg = obj.get('config', obj); any(k in cfg for k in ...)
\* Ret(truth), or Raise when obj has no .get or cfg is not a container
marker_check(obj) ==
  IF obj.t # "obj" THEN Raise
  ELSE LET cfg == dict_get(obj, K_config, obj)
       IN IF py_in(K_MCU, cfg).raises THEN Raise
          ELSE Ret(\E n \in 1..Len(MarkerKeys) : py_in(MarkerKeys[n], cfg).v)

\* the body of the try block at 0-based position i: Some(obj) when the
\* candidate is returned, None when the loop goes on (no match, or an
\* exception swallowed by `except Exception: pass`)
candidate_at(data, i) ==
  LET z == Inflate(From(data, i))
      j == json_loads(Strip(z.out))
  IN IF ~z.ok THEN None
     ELSE IF ~Utf8Ok(z.out, 1) THEN None
     ELSE IF j.raises THEN None
     ELSE IF marker_check(j.v).raises THEN None
     ELSE IF marker_check(j.v).v THEN Some(j.v)
     ELSE None

\* fault variant of scan_range: the scan starting one position late
scan_range_late(data) == 5..(Len(data) - 11)

\* the positions the loop visits: range(4, len(data) - 10)
scan_range(data) == 4..(Len(data) - 11)

\* the two-byte signature test of the loop
has_magic(data, i) == data[i + 1] = 120 /\ data[i + 2] \in {1, 94, 156, 218}

\* extract_dictionary(data) -> [obj, offset]: (obj, i) or (None, None)
extract_dictionary(data) ==
  LET hits == { i \in scan_range(data) :
                  has_magic(data, i) /\ candidate_at(data, i).some }
  IN IF hits = {} THEN [obj |-> None, offset |-> None]
     ELSE LET i == CHOOSE i \in hits : \A m \in hits : i <= m
          IN [obj |-> candidate_at(data, i), offset |-> Some(i)]

\* ---------------------------------------------------------- clock deriver

\* derive_crystal(clock_freq) -> Ret(<<crystal, note>>), or Raise when
\* int(clock_freq) raises.  A note is [hz, text]: hz is the formatted
\* frequency of a generated note and None for a note of the table.
derive_crystal(clock_freq) ==
  IF clock_freq.t = "null" THEN Ret(<< None, None >>)
  ELSE IF py_int(clock_freq).raises THEN Raise
  ELSE LET n == py_int(clock_freq).v
       IN IF n \in DOMAIN CRYSTAL_MAP
          THEN Ret(<< Some(CRYSTAL_MAP[n][1]),
                      Some([hz |-> None, text |-> CRYSTAL_MAP[n][2]]) >>)
          ELSE Ret(<< None, Some([hz |-> Some(n), text |-> "Hz - crystal unknown"]) >>)

\* ------------------------------------------------------------ input sets
\* The firmware images an analysis is run on.  Texts are given as their
\* UTF-8 bytes.

\* '{"MCU":1}'
Txt_MCU ==
  <<123, 34, 77, 67, 85, 34, 58, 49, 125>>
\* '{"config":{"MCU":"gd32f303","CLOCK_FREQ":72000000,"SERIAL_BAUD":250000}}'
Txt_Full ==
  <<123, 34, 99, 111, 110, 102, 105, 103, 34, 58, 123, 34, 77, 67, 85, 34, 58, 34, 103, 100, 51, 50, 102, 51, 48, 51, 34, 44, 34, 67, 76, 79, 67, 75, 95, 70, 82, 69, 81, 34, 58, 55, 50, 48, 48, 48, 48, 48, 48, 44, 34, 83, 69, 82, 73, 65, 76, 95, 66, 65, 85, 68, 34, 58, 50, 53, 48, 48, 48, 48, 125, 125>>
\* '{"config":{"CLOCK_FREQ":999}}'
Txt_Clk999 ==
  <<123, 34, 99, 111, 110, 102, 105, 103, 34, 58, 123, 34, 67, 76, 79, 67, 75, 95, 70, 82, 69, 81, 34, 58, 57, 57, 57, 125, 125>>
\* '{"config":{"CLOCK_FREQ":72000000.5}}'
Txt_ClkFloat ==
  <<123, 34, 99, 111, 110, 102, 105, 103, 34, 58, 123, 34, 67, 76, 79, 67, 75, 95, 70, 82, 69, 81, 34, 58, 55, 50, 48, 48, 48, 48, 48, 48, 46, 53, 125, 125>>
\* '{"config":{"CLOCK_FREQ":"abc"}}'
Txt_ClkWord ==
  <<123, 34, 99, 111, 110, 102, 105, 103, 34, 58, 123, 34, 67, 76, 79, 67, 75, 95, 70, 82, 69, 81, 34, 58, 34, 97, 98, 99, 34, 125, 125>>
\* '{"config":{"CLOCK_FREQ":"48000000"}}'
Txt_ClkDigits ==
  <<123, 34, 99, 111, 110, 102, 105, 103, 34, 58, 123, 34, 67, 76, 79, 67, 75, 95, 70, 82, 69, 81, 34, 58, 34, 52, 56, 48, 48, 48, 48, 48, 48, 34, 125, 125>>
\* '{"config":{"CLOCK_FREQ":null}}'
Txt_ClkNull ==
  <<123, 34, 99, 111, 110, 102, 105, 103, 34, 58, 123, 34, 67, 76, 79, 67, 75, 95, 70, 82, 69, 81, 34, 58, 110, 117, 108, 108, 125, 125>>
\* '{"CLOCK_FREQ":48000000,"version":"v0.12"}'
Txt_Clk48 ==
  <<123, 34, 67, 76, 79, 67, 75, 95, 70, 82, 69, 81, 34, 58, 52, 56, 48, 48, 48, 48, 48, 48, 44, 34, 118, 101, 114, 115, 105, 111, 110, 34, 58, 34, 118, 48, 46, 49, 50, 34, 125>>
\* '{"config":{"SERIAL_BAUD":"fast"}}'
Txt_BaudWord ==
  <<123, 34, 99, 111, 110, 102, 105, 103, 34, 58, 123, 34, 83, 69, 82, 73, 65, 76, 95, 66, 65, 85, 68, 34, 58, 34, 102, 97, 115, 116, 34, 125, 125>>
\* '{"config":"MCU"}'
Txt_CfgStr ==
  <<123, 34, 99, 111, 110, 102, 105, 103, 34, 58, 34, 77, 67, 85, 34, 125>>
\* '{"config":["MCU"]}'
Txt_CfgList ==
  <<123, 34, 99, 111, 110, 102, 105, 103, 34, 58, 91, 34, 77, 67, 85, 34, 93, 125>>
\* '{"config":7}'
Txt_CfgInt ==
  <<123, 34, 99, 111, 110, 102, 105, 103, 34, 58, 55, 125>>
\* '{"config":{"X":1},"MCU":1}'
Txt_CfgOther ==
  <<123, 34, 99, 111, 110, 102, 105, 103, 34, 58, 123, 34, 88, 34, 58, 49, 125, 44, 34, 77, 67, 85, 34, 58, 49, 125>>
\* '{"X":1}'
Txt_NoMarker ==
  <<123, 34, 88, 34, 58, 49, 125>>
\* '["MCU"]'
Txt_List ==
  <<91, 34, 77, 67, 85, 34, 93>>
\* '"MCU"'
Txt_Str ==
  <<34, 77, 67, 85, 34>>
\* '{"MCU":'
Txt_Cut ==
  <<123, 34, 77, 67, 85, 34, 58>>
\* '{"MCU":"\xff"}'
Txt_BadUtf8 ==
  <<123, 34, 77, 67, 85, 34, 58, 34, 255, 34, 125>>
\* '{"MCU":"\xc3\xa9"}'
Txt_Utf8 ==
  <<123, 34, 77, 67, 85, 34, 58, 34, 195, 169, 34, 125>>
\* ' {"MCU" : 1}\n'
Txt_Padded ==
  <<32, 123, 34, 77, 67, 85, 34, 32, 58, 32, 49, 125, 10>>

Texts ==
  { Txt_MCU,
    Txt_Full,
    Txt_Clk999,
    Txt_ClkFloat,
    Txt_ClkWord,
    Txt_ClkDigits,
    Txt_ClkNull,
    Txt_Clk48,
    Txt_BaudWord,
    Txt_CfgStr,
    Txt_CfgList,
    Txt_CfgInt,
    Txt_CfgOther,
    Txt_NoMarker,
    Txt_List,
    Txt_Str,
    Txt_Cut,
    Txt_BadUtf8,
    Txt_Utf8,
    Txt_Padded }

Zeros(n) == [k \in 1..n |-> 0]

\* a vector table: initial stack pointer, reset vector
VtHead(msp, reset) == pack_u32le(msp) \o pack_u32le(reset)

\* a zlib stream holding text in one final stored block
StoredStream(flg, text) ==
  << 120, flg, 1, Len(text) % 256, Len(text) \div 256,
     255 - (Len(text) % 256), 255 - (Len(text) \div 256) >>
  \o text \o AdlerBytes(text)

\* stack pointers around both ends of [0x20000000, 0x20020000]
MspValues == { 536870911, 536870912, 536875008, 537001984, 537001985 }

\* reset vectors: 0, 1, 0x1001, 0x07FFFFFF, 0x08000000, 0x08000001,
\* 0x08003001, 0x08004001, 0x0807FFFF, 0x08080000, 0x08080001
ResetValues == { 0, 1, 4097, 134217727, 134217728, 134217729,
                 134230017, 134234113, 134742015, 134742016, 134742017 }

\* a plausible table (0x20001000, 0x08003001) and an implausible one
GoodHead == VtHead(536875008, 134230017)
BadHead == VtHead(0, 0)

\* images without a dictionary, and images too short for a vector table
VtBuffers ==
  { VtHead(m, r) \o Zeros(8) : m \in MspValues, r \in ResetValues }
  \cup { VtHead(m, r) : m \in {536875008}, r \in {1, 134230017} }
  \cup { << >>, Zeros(4), Zeros(7) }

TailPad == 12

Stream_MCU == StoredStream(1, Txt_MCU)

\* streams that are not a well-formed final stored block
OddStreams ==
  { SubSeq(Stream_MCU, 1, Len(Stream_MCU) - 4),                     \* no trailer
    SubSeq(Stream_MCU, 1, Len(Stream_MCU) - 1) \o << 0 >>,          \* wrong checksum
    << 120, 1, 7 >> \o Txt_MCU,                                     \* block type 3
    << 120, 1, 1, 9, 0, 0, 0 >> \o Txt_MCU,                         \* LEN/NLEN mismatch
    << 120, 32, 1, 9, 0, 246, 255 >> \o Txt_MCU,                    \* second byte not a signature
    << 120, 1, 0, 4, 0, 251, 255 >> \o SubSeq(Txt_MCU, 1, 4)
       \o << 1, 5, 0, 250, 255 >> \o SubSeq(Txt_MCU, 5, 9)
       \o AdlerBytes(Txt_MCU) }                                     \* two stored blocks

Streams ==
  { StoredStream(1, t) : t \in Texts }
  \cup { StoredStream(f, Txt_MCU) : f \in {94, 156, 218} }
  \cup OddStreams

\* one stream after a plausible vector table
DictBuffers == { GoodHead \o s \o Zeros(TailPad) : s \in Streams }

\* streams at other positions, and two streams in one image
PlacedBuffers ==
  { Zeros(k) \o Stream_MCU \o Zeros(TailPad) : k \in {0, 3, 4, 5} }
  \cup { GoodHead \o Stream_MCU,
         GoodHead \o StoredStream(1, Txt_NoMarker) \o Stream_MCU \o Zeros(TailPad),
         GoodHead \o Stream_MCU \o StoredStream(1, Txt_Clk999) \o Zeros(TailPad),
         Stream_MCU \o StoredStream(1, Txt_Clk999) \o Zeros(TailPad) }

MaxNeedles == 2

RECURSIVE Needles(_, _)
\* the dictionary-address literals of the candidates in js, for a
\* dictionary 8 bytes after the vector table
Needles(js, j) ==
  IF j > Len(KNOWN_BL_OFFSETS) THEN << >>
  ELSE (IF j \in js THEN needle_of(j, 8, 0) ELSE << >>) \o Needles(js, j + 1)

CandidateSets ==
  { js \in SUBSET (1..Len(KNOWN_BL_OFFSETS)) : Cardinality(js) <= MaxNeedles }

\* a dictionary at offset 8 and the literals of up to MaxNeedles candidates
NeedleBuffers ==
  { GoodHead \o Stream_MCU \o Needles(js, 1) \o Zeros(TailPad) : js \in CandidateSets }
  \cup { VtHead(536875008, r) \o Stream_MCU \o Zeros(TailPad) : r \in {1, 4097} }

\* full-flash images: the vector table after a leading bootloader region
FlashBuffers ==
  { BadHead \o Zeros(4088) \o GoodHead \o Zeros(TailPad),
    BadHead \o Zeros(4088) \o GoodHead \o Stream_MCU \o Zeros(TailPad),
    BadHead \o Zeros(4088) \o GoodHead \o Stream_MCU \o Needles({1}, 1) \o Zeros(TailPad),
    BadHead \o Zeros(4088) \o GoodHead \o Stream_MCU \o Needles({4}, 1) \o Zeros(TailPad),
    GoodHead \o Zeros(4088) \o GoodHead \o Stream_MCU \o Needles({4}, 1) \o Zeros(TailPad),
    BadHead \o Zeros(8184) \o GoodHead \o Zeros(TailPad),
    BadHead \o Zeros(4088) \o GoodHead \o Zeros(4088) \o GoodHead \o Zeros(TailPad),
    GoodHead \o Zeros(4088) \o GoodHead \o Zeros(TailPad) }

Buffers == VtBuffers \cup DictBuffers \cup PlacedBuffers \cup NeedleBuffers \cup FlashBuffers

\* ---------------------------------------------------------------- main()
\* One run of the command line tool over files[1..n].  files[k] is what the
\* file system holds at the k-th path.

MaxFiles == 2

FileStatus == {"ok", "missing", "unreadable"}

VARIABLES
  files,        \* args.bin, as the status of each path
  idx,          \* position of the for loop over args.bin
  pc,           \* the statement main() is at
  data,         \* the bytes read from the current file
  vt,           \* analyze_vector_table(data)
  dict_obj,     \* first result of extract_dictionary(data)
  dict_offset,  \* second result of extract_dictionary(data)
  vt_file_offset, \* the vector-table file offset found by find_link_base
  link_base,    \* find_link_base(data, dict_offset)
  bl_offset,    \* link_base - FLASH_BASE, or None
  summary,      \* what the console summary showed for link base and offset
  rendered,     \* the values render_html derived for the report
  reports,      \* indexes of the files whose report has been written
  error         \* why the run stopped early

vars == << files, idx, pc, data, vt, dict_obj, dict_offset, vt_file_offset,
           link_base, bl_offset, summary, rendered, reports, error >>

locals == << data, vt, dict_obj, dict_offset, vt_file_offset, link_base, bl_offset,
             summary, rendered >>

Init ==
  /\ files \in UNION { [1..n -> FileStatus] : n \in 1..MaxFiles }
  /\ idx = 1
  /\ pc = "check"
  /\ data = << >>
  /\ vt = None
  /\ dict_obj = None
  /\ dict_offset = None
  /\ vt_file_offset = None
  /\ link_base = None
  /\ bl_offset = None
  /\ summary = None
  /\ rendered = None
  /\ reports = {}
  /\ error = "none"

\* an uncaught exception ends the run
Crash(why) == pc' = "crashed" /\ error' = why

\* if not os.path.isfile(bin_path): print error; sys.exit(1)
CheckFile ==
  /\ pc = "check"
  /\ IF files[idx] = "missing"
     THEN pc' = "exited" /\ error' = "file not found"
     ELSE pc' = "read" /\ UNCHANGED error
  /\ UNCHANGED << files, idx, locals, reports >>

\* with open(bin_path, 'rb') as f: data = f.read()
ReadFile ==
  /\ pc = "read"
  /\ IF files[idx] = "unreadable"
     THEN Crash("OSError: open") /\ UNCHANGED data
     ELSE /\ \E d \in Buffers : data' = d
          /\ pc' = "analyze"
          /\ UNCHANGED error
  /\ UNCHANGED << files, idx, vt, dict_obj, dict_offset, vt_file_offset, link_base, bl_offset,
                  summary, rendered, reports >>

\* vt = analyze_vector_table(data)
AnalyzeVectorTable ==
  /\ pc = "analyze"
  /\ LET r == analyze_vector_table(data)
     IN IF r.raises
        THEN Crash("struct.error: analyze_vector_table") /\ UNCHANGED vt
        ELSE vt' = Some(r.v) /\ pc' = "extract" /\ UNCHANGED error
  /\ UNCHANGED << files, idx, data, dict_obj, dict_offset, vt_file_offset, link_base, bl_offset,
                  summary, rendered, reports >>

\* dict_obj, dict_offset = extract_dictionary(data)
ExtractDictionary ==
  /\ pc = "extract"
  /\ LET r == extract_dictionary(data)
     IN dict_obj' = r.obj /\ dict_offset' = r.offset
  /\ pc' = "find"
  /\ UNCHANGED << files, idx, data, vt, vt_file_offset, link_base, bl_offset, summary, rendered,
                  reports, error >>

\* link_base = find_link_base(data, dict_offset)
FindLinkBase ==
  /\ pc = "find"
  /\ LET r == find_link_base(data, dict_offset)
     IN IF r.raises
        THEN Crash("struct.error: find_link_base") /\ UNCHANGED link_base
        ELSE link_base' = Some(r.v) /\ pc' = "offset" /\ UNCHANGED error
  /\ vt_file_offset' = Some(vt_file_offset_of(data))
  /\ UNCHANGED << files, idx, data, vt, dict_obj, dict_offset, bl_offset, summary,
                  rendered, reports >>

\* bl_offset = (link_base - FLASH_BASE) if link_base else None
ComputeBlOffset ==
  /\ pc = "offset"
  /\ bl_offset' = IF link_base.v # 0 THEN Some(link_base.v - FLASH_BASE) ELSE None
  /\ pc' = "print"
  /\ UNCHANGED << files, idx, data, vt, dict_obj, dict_offset, vt_file_offset, link_base, summary,
                  rendered, reports, error >>

\* the console summary: "Link base: 0x... / not found", "BL offset: ... /
\* unknown", and the dictionary fields through cfg.get
PrintSummary ==
  /\ pc = "print"
  /\ summary' = Some([link_base |-> IF link_base.v # 0 THEN link_base ELSE None,
                      bl_offset |-> bl_offset])
  /\ IF dict_obj.some /\ dict_get(dict_obj.v, K_config, dict_obj.v).t # "obj"
     THEN Crash("AttributeError: cfg.get")
     ELSE pc' = "render" /\ UNCHANGED error
  /\ UNCHANGED << files, idx, data, vt, dict_obj, dict_offset, vt_file_offset, link_base, bl_offset,
                  rendered, reports >>

\* report = render_html(filename, len(data), vt, link_base or 0, bl_offset,
\*                      dict_obj, dict_offset)
RenderHtml ==
  /\ pc = "render"
  /\ LET cfg         == IF dict_obj.some
                        THEN dict_get(dict_obj.v, K_config, dict_obj.v)
                        ELSE JObj(<< >>)
         clock_freq  == dict_get(cfg, K_CLOCK_FREQ, JNull)
         serial_baud == dict_get(cfg, K_SERIAL_BAUD, JNull)
         crystal     == derive_crystal(clock_freq)
     IN IF crystal.raises
        THEN Crash("int(clock_freq): derive_crystal") /\ UNCHANGED rendered
        ELSE IF dict_obj.some /\ truthy(serial_baud) /\ py_int(serial_baud).raises
        THEN Crash("int(serial_baud): render_html") /\ UNCHANGED rendered
        ELSE /\ rendered' = Some([offset_label |-> IF bl_offset.some
                                                    THEN Some(offset_label(bl_offset.v))
                                                    ELSE None,
                                  clock_freq   |-> clock_freq,
                                  crystal      |-> crystal.v[1],
                                  crystal_note |-> crystal.v[2]])
             /\ pc' = "write"
             /\ UNCHANGED error
  /\ UNCHANGED << files, idx, data, vt, dict_obj, dict_offset, vt_file_offset, link_base, bl_offset,
                  summary, reports >>

\* the report is written and the loop goes to the next path; every local
\* is assigned again before the next iteration reads it
WriteReport ==
  /\ pc = "write"
  /\ reports' = reports \cup {idx}
  /\ IF idx < Len(files)
     THEN /\ idx' = idx + 1
          /\ pc' = "check"
          /\ data' = << >>
          /\ vt' = None
          /\ dict_obj' = None
          /\ dict_offset' = None
          /\ vt_file_offset' = None
          /\ link_base' = None
          /\ bl_offset' = None
          /\ summary' = None
          /\ rendered' = None
     ELSE /\ pc' = "done"
          /\ UNCHANGED << idx, locals >>
  /\ UNCHANGED << files, error >>

Next ==
  \/ CheckFile
  \/ ReadFile
  \/ AnalyzeVectorTable
  \/ ExtractDictionary
  \/ FindLinkBase
  \/ ComputeBlOffset
  \/ PrintSummary
  \/ RenderHtml
  \/ WriteReport

Spec == Init /\ [][Next]_vars

\* ------------------------------------------------------------- properties

\* the statements of main() after which a local holds its value
AfterAnalyze == {"extract", "find", "offset", "print", "render", "write"}
AfterExtract == {"find", "offset", "print", "render", "write"}
AfterFind    == {"offset", "print", "render", "write"}
AfterOffset  == {"print", "render", "write"}

\* the little-endian word at 0-based offset k of the current buffer
WordAt(k) ==
  data[k + 1] + 256 * data[k + 2] + 65536 * data[k + 3] + 16777216 * data[k + 4]

\* the candidates whose dictionary-address literal occurs in the buffer
NeedleHits ==
  { j \in 1..7 :
      LET a == 134217728 + KNOWN_BL_OFFSETS[j] + dict_offset.v - vt_file_offset.v
      IN \E k \in 0..(Len(data) - 4) :
            /\ data[k + 1] = a % 256
            /\ data[k + 2] = (a \div 256) % 256
            /\ data[k + 3] = (a \div 65536) % 256
            /\ data[k + 4] = (a \div 16777216) % 256 }

\* C1: when a dictionary was located and exactly one candidate bootloader
\* offset B has its little-endian needle in the buffer, find_link_base
\* returns 0x08000000 + B, whatever the vector table holds.
C1_SingleNeedleWins ==
  (pc \in AfterFind /\ dict_offset.some) =>
     \A j \in 1..7 :
        NeedleHits = {j} => link_base.v = 134217728 + KNOWN_BL_OFFSETS[j]

\* C1 witness: a full-flash image (table at 0x1000) whose only needle is the
\* one of offset 0x3000, resolved to 0x08003000 rather than 0x08001000
C1_Witness ==
  /\ pc \in AfterFind
  /\ dict_offset.some
  /\ vt_file_offset.v = 4096
  /\ NeedleHits = {4}
  /\ link_base.v = 134217728 + 12288

\* C2: for every image of at least 8 bytes the pipeline ends with link_base
\* reported as present and bootloader_offset present and equal to
\* link_base - 0x08000000.
C2_LinkBaseAlwaysPresent ==
  (pc \in AfterOffset /\ Len(data) >= 8) =>
     /\ bl_offset.some
     /\ bl_offset.v = link_base.v - 134217728
     /\ (summary.some => summary.v.link_base.some)

\* the positions of the current buffer, out of a range, that hold an
\* acceptable candidate
Acceptable(range) ==
  { p \in range : /\ p + 2 <= Len(data)
                  /\ data[p + 1] = 120
                  /\ data[p + 2] \in {1, 94, 156, 218}
                  /\ candidate_at(data, p).some }

\* the result of extract_dictionary is the lowest acceptable position of
\* range and its dictionary, or absence when range holds none
FirstOf(range) ==
  IF Acceptable(range) = {}
  THEN dict_obj = None /\ dict_offset = None
  ELSE /\ dict_offset.some
       /\ dict_offset.v \in Acceptable(range)
       /\ \A q \in Acceptable(range) : dict_offset.v <= q
       /\ dict_obj = candidate_at(data, dict_offset.v)

\* C3 as stated: extract_dictionary returns the lowest acceptable position
\* anywhere in the buffer, from offset 0 to its end.
C3_FirstAnywhere ==
  pc \in AfterExtract => FirstOf(0..(Len(data) - 1))

\* C3 amended: extract_dictionary returns the lowest acceptable position p
\* with 4 <= p < len(data) - 10, and absence only if no such position is
\* acceptable.
C3_FirstInScanRange ==
  pc \in AfterExtract => FirstOf(4..(Len(data) - 11))

\* C3 witness: a dictionary returned from behind an earlier signature whose
\* stream was rejected
C3_Witness ==
  /\ pc \in AfterExtract
  /\ dict_offset.some
  /\ \E q \in 4..(dict_offset.v - 1) :
        data[q + 1] = 120 /\ data[q + 2] = 1 /\ ~candidate_at(data, q).some

\* C4: vector table validation never raises; a buffer with fewer than 8
\* bytes at the probe offset is reported invalid, by the resolver's probe
\* and by the top-level validation at offset 0.
C4_ValidationNeverRaises ==
  /\ error # "struct.error: analyze_vector_table"
  /\ (pc \in AfterAnalyze /\ Len(data) < 8) =>
        /\ vt.some
        /\ ~(vt.v.msp_ok /\ vt.v.flash_ok /\ vt.v.thumb = 1)
  /\ \A j \in 1..7 : KNOWN_BL_OFFSETS[j] + 8 > Len(data) =>
        ~is_valid_vt(data, KNOWN_BL_OFFSETS[j])

\* the three-way conjunction at 0-based offset k of the current buffer
Plausible(k) ==
  /\ 536870912 <= WordAt(k) /\ WordAt(k) <= 537001984
  /\ 134217728 <= WordAt(k + 4) - (WordAt(k + 4) % 2)
  /\ WordAt(k + 4) - (WordAt(k + 4) % 2) < 134742016
  /\ WordAt(k + 4) % 2 = 1

\* C5: with 8 bytes available at an offset, the location is a plausible
\* vector table iff the word there is in [0x20000000, 0x20020000], the next
\* word with bit 0 cleared is in [0x08000000, 0x08080000) and its bit 0 is
\* set; the top-level record at offset 0 agrees with the probe.
C5_PlausibleIffThreeWay ==
  pc \in AfterAnalyze =>
     /\ \A j \in 1..7 : KNOWN_BL_OFFSETS[j] + 8 <= Len(data) =>
           (is_valid_vt(data, KNOWN_BL_OFFSETS[j]) <=> Plausible(KNOWN_BL_OFFSETS[j]))
     /\ vt.v.msp_ok <=> (536870912 <= WordAt(0) /\ WordAt(0) <= 537001984)
     /\ vt.v.flash_ok <=> /\ 134217728 <= WordAt(4) - (WordAt(4) % 2)
                          /\ WordAt(4) - (WordAt(4) % 2) < 134742016
     /\ vt.v.thumb = WordAt(4) % 2
     /\ (vt.v.msp_ok /\ vt.v.flash_ok /\ vt.v.thumb = 1) <=> is_valid_vt(data, 0)

\* C5 witness: a table with the stack pointer at the closed upper end
\* 0x20020000 and the reset vector 0x0807FFFF, found plausible
C5_Witness ==
  /\ pc \in AfterAnalyze
  /\ vt.v.msp = 537001984
  /\ vt.v.reset = 134742015
  /\ vt.v.msp_ok /\ vt.v.flash_ok /\ vt.v.thumb = 1
  /\ is_valid_vt(data, 0)

\* C6: a candidate is accepted only if it parses to an object whose config
\* sub-mapping (or the object itself without a config key) is a mapping
\* with MCU, CLOCK_FREQ or SERIAL_BAUD among its keys; anything else is
\* skipped.
C6_AcceptedHasMarkerKey ==
  (pc \in AfterExtract /\ dict_obj.some) =>
     /\ dict_obj.v.t = "obj"
     /\ LET cfg == IF K_config \in DOMAIN dict_obj.v.m
                   THEN dict_obj.v.m[K_config] ELSE dict_obj.v
        IN /\ cfg.t = "obj"
           /\ \E k \in {K_MCU, K_CLOCK_FREQ, K_SERIAL_BAUD} : k \in DOMAIN cfg.m

\* the enumerated bootloader offsets
Enumerated == {0, 4096, 8192, 12288, 20480, 28672, 32768}

\* C7: bootloader_offset, when present, is an enumerated value or a
\* non-negative multiple of 0x1000 labelled "Non-standard offset"; no
\* enumerated offset carries that label.  (Every modelled word is below
\* 2^31, so only the lower end of the 32-bit range can be left.)
C7_OffsetEnumeratedOrPageAligned ==
  /\ \A b \in Enumerated : offset_label(b)[2] # "Non-standard offset"
  /\ (pc \in AfterOffset /\ bl_offset.some) =>
        \/ bl_offset.v \in Enumerated
        \/ /\ bl_offset.v >= 0
           /\ bl_offset.v % 4096 = 0
           /\ offset_label(bl_offset.v)[2] = "Non-standard offset"

\* C8: a missing or unreadable file ends the processing of that file only:
\* when the run is over, every other readable file has its report.
C8_OtherFilesStillAnalyzed ==
  (pc = "exited" \/ (pc = "crashed" /\ error = "OSError: open")) =>
     \A k \in 1..Len(files) : (k # idx /\ files[k] = "ok") => k \in reports

\* C9: offset_label returns the declared size and label of an enumerated
\* offset and (offset / 1024, "Non-standard offset") for any other.
C9_OffsetLabel ==
  (pc = "write" /\ bl_offset.some) =>
     LET b == bl_offset.v
         r == rendered.v.offset_label.v
     IN /\ b = 0     => r = << 0, "No bootloader (direct flash)" >>
        /\ b = 4096  => r = << 4, "Minimal / custom 4 KiB bootloader" >>
        /\ b = 8192  => r = << 8, "HID / stm32duino bootloader" >>
        /\ b = 12288 => r = << 12, "Creality K1 / K1 SE / K1 Max (GD32F303)" >>
        /\ b = 20480 => r = << 20, "DFU 20 KiB (uncommon)" >>
        /\ b = 28672 => r = << 28, "Creality/Klipper custom 28 KiB bootloader" >>
        /\ b = 32768 => r = << 32, "DFU 32 KiB standard" >>
        /\ b \notin Enumerated => r = << b \div 1024, "Non-standard offset" >>

\* C9 witness: the unlisted offset 0x4000 classified as (16, non-standard)
C9_Witness ==
  /\ pc = "write"
  /\ bl_offset = Some(16384)
  /\ rendered.v.offset_label.v = << 16, "Non-standard offset" >>

\* the keys of the crystal table and their labels
CrystalLabel ==
  (72000000 :> "8 MHz") @@ (64000000 :> "8 MHz") @@ (48000000 :> "8 MHz") @@
  (24000000 :> "8 MHz") @@ (120000000 :> "8 MHz") @@ (180000000 :> "12 MHz") @@
  (168000000 :> "8/12 MHz")

\* C10: derive_crystal never raises; an absent frequency gives (None, None),
\* a frequency equal to a table key gives that key's label and note, and any
\* other CLOCK_FREQ value of the dictionary gives no label and a generated
\* note.
C10_ExactKeyLookup ==
  /\ error # "int(clock_freq): derive_crystal"
  /\ pc = "write" =>
       LET c == rendered.v.clock_freq
       IN IF c.t = "null"
          THEN rendered.v.crystal = None /\ rendered.v.crystal_note = None
          ELSE IF c.t = "int" /\ c.n \in DOMAIN CrystalLabel
          THEN /\ rendered.v.crystal = Some(CrystalLabel[c.n])
               /\ rendered.v.crystal_note.some
               /\ ~rendered.v.crystal_note.v.hz.some
          ELSE /\ rendered.v.crystal = None
               /\ rendered.v.crystal_note.some
               /\ rendered.v.crystal_note.v.hz.some

\* the non-zero enumerated offsets of the current buffer that hold a
\* plausible vector table
PlausibleAlternates ==
  { k \in {4096, 8192, 12288, 20480, 28672, 32768} :
      k + 8 <= Len(data) /\ Plausible(k) }

\* the lowest plausible alternate, or 0 when there is none
FirstAlternate ==
  IF PlausibleAlternates = {} THEN 0
  ELSE CHOOSE k \in PlausibleAlternates : \A m \in PlausibleAlternates : k <= m

\* C11 as stated: the vector-table file offset is the first non-zero
\* enumerated offset holding a plausible table, and 0 only if no alternate
\* matched, also when offset 0 itself is plausible.
C11_FirstAlternateAlways ==
  pc \in AfterFind => vt_file_offset.v = FirstAlternate

\* C11 amended: the vector-table file offset is 0 when offset 0 holds a
\* plausible table; otherwise it is the first non-zero enumerated offset
\* (ascending) holding a plausible table, and 0 if none does.
C11_ZeroFirstThenAlternates ==
  pc \in AfterFind =>
     vt_file_offset.v = IF Len(data) >= 8 /\ Plausible(0) THEN 0 ELSE FirstAlternate

\* C11 witness: no table at offset 0, plausible tables at 0x1000 and at
\* 0x2000, the file offset found being 0x1000
C11_Witness ==
  /\ pc \in AfterFind
  /\ ~Plausible(0)
  /\ {4096, 8192} \subseteq PlausibleAlternates
  /\ vt_file_offset.v = 4096

\* C12: without a dictionary, or with one but none of the seven needles in
\* the buffer, the link base is 0x08000000 + vector-table file offset when
\* that offset is non-zero, and otherwise the word at offset 4 with bit 0
\* cleared, masked with 0xFFFFF000; when some needle occurs the link base
\* is that of a candidate whose needle occurs.
C12_FallbackOrder ==
  pc \in AfterFind =>
     IF dict_offset.some /\ NeedleHits # {}
     THEN \E j \in NeedleHits : link_base.v = 134217728 + KNOWN_BL_OFFSETS[j]
     ELSE IF vt_file_offset.v # 0
     THEN link_base.v = 134217728 + vt_file_offset.v
     ELSE link_base.v = (WordAt(4) - (WordAt(4) % 2))
                        - ((WordAt(4) - (WordAt(4) % 2)) % 4096)

\* C12 witness: a dictionary located, none of its needles in the buffer, the
\* table at 0x1000: the link base is 0x08001000 although the word at
\* offset 4 is 0
C12_Witness ==
  /\ pc \in AfterFind
  /\ dict_offset.some
  /\ NeedleHits = {}
  /\ vt_file_offset.v = 4096
  /\ WordAt(4) = 0
  /\ link_base.v = 134217728 + 4096

====
